---- MODULE Spec2Model ----
(***************************************************************************)
(* Caption chunking and timeline tracking of the Simora-AI video player    *)
(* (VideoPlayerWithCaptions.jsx), and the subtitle utilities of its        *)
(* backend (utils/srt.js): timestamps, text cleaning, SRT writing, parsing *)
(* and validation.                                                         *)
(*                                                                         *)
(* Numbers.  A JavaScript number is an IEEE-754 binary floating point      *)
(* value.  The model keeps the shape of that arithmetic and scales its     *)
(* size down: a number is held as an integer count of 2^-FloatFracBits,    *)
(* and the result of every time computation is rounded to FloatPrecision   *)
(* significant bits, round-to-nearest, ties-to-even.  Array lengths and    *)
(* loop indices are small integers, which binary64 holds exactly, so they  *)
(* are kept exact.  NaN and the infinities are distinguished values.       *)
(*                                                                         *)
(* Strings are sequences of one-character strings.                         *)
(***************************************************************************)
EXTENDS Integers, Sequences, FiniteSets, TLC

\* ------------------------------------------------------------------ bounds
FloatPrecision == 4
FloatFracBits == 8
MaxCaptions == 2
MaxTextLen == 3
SrtPrecision == 18
SrtFracBits == 15
MaxMillis == 4100
MaxCleanLen == 4
MaxLines == 5

\* ------------------------------------------------------- number arithmetic
RECURSIVE Pow2(_)
Pow2(n) == IF n = 0 THEN 1 ELSE 2 * Pow2(n - 1)

Scale == Pow2(FloatFracBits)
TwoP == Pow2(FloatPrecision)

NaN == -999999999
PosInf == 999999999
NegInf == -999999998

IsFinite(x) == x # NaN /\ x # PosInf /\ x # NegInf

\* spacing of the representable values around the magnitude a/den
RECURSIVE Spacing(_, _, _)
Spacing(a, den, g) == IF a < TwoP * g * den THEN g ELSE Spacing(a, den, 2 * g)

\* the magnitude a/den rounded to nearest, ties to even
RoundMag(a, den) ==
    LET g == Spacing(a, den, 1)
        d == den * g
        m == a \div d
        r == a - m * d
    IN  IF 2 * r > d \/ (2 * r = d /\ m % 2 = 1) THEN (m + 1) * g ELSE m * g

RoundRat(num, den) == IF num >= 0 THEN RoundMag(num, den) ELSE -RoundMag(-num, den)

\* x + y, x - y on finite numbers
fadd(x, y) == RoundRat(x + y, 1)
fsub(x, y) == RoundRat(x - y, 1)

\* x * y
fmul(x, y) ==
    IF x = NaN \/ y = NaN THEN NaN
    ELSE IF ~IsFinite(x) \/ ~IsFinite(y)
         THEN IF x = 0 \/ y = 0 THEN NaN
              ELSE IF (x > 0) = (y > 0) THEN PosInf ELSE NegInf
    ELSE RoundRat(x * y, Scale)

\* x / y on finite numbers; 0/0 is NaN, x/0 is an infinity
fdiv(x, y) ==
    IF y = 0 THEN (IF x = 0 THEN NaN ELSE IF x > 0 THEN PosInf ELSE NegInf)
    ELSE IF y > 0 THEN RoundRat(x * Scale, y)
    ELSE RoundRat(-(x * Scale), -y)

\* Math.min: NaN if either argument is NaN
MathMin(x, y) == IF x = NaN \/ y = NaN THEN NaN ELSE IF x <= y THEN x ELSE y

\* Math.floor of a scaled number, as an integer count (not scaled)
MathFloor(x) == IF IsFinite(x) THEN x \div Scale ELSE x

\* an integer as a number
Num(n) == n * Scale

\* ------------------------------------------------------------------ strings
Space == " "

\* String.prototype.split(' '): cut at every single space, keep empty pieces
RECURSIVE SplitFrom(_, _, _)
SplitFrom(s, i, cur) ==
    IF i > Len(s) THEN <<cur>>
    ELSE IF s[i] = Space THEN <<cur>> \o SplitFrom(s, i + 1, <<>>)
    ELSE SplitFrom(s, i + 1, Append(cur, s[i]))

split(s) == SplitFrom(s, 1, <<>>)

\* Array.prototype.join(' ')
RECURSIVE join(_)
join(ws) ==
    IF Len(ws) = 0 THEN <<>>
    ELSE IF Len(ws) = 1 THEN ws[1]
    ELSE ws[1] \o <<Space>> \o join(Tail(ws))

\* Array.prototype.slice(i, j), 0-based, end exclusive
slice(ws, i, j) ==
    LET hi == IF j < Len(ws) THEN j ELSE Len(ws)
    IN  IF i >= hi THEN <<>> ELSE SubSeq(ws, i + 1, hi)

\* ------------------------------------------------------------------ chunker
maxWordsPerSegment == 6

\* Math.ceil(n / d) for a length n and d > 0
MathCeilDiv(n, d) == (n + d - 1) \div d

segmentDuration(caption, words) ==
    fdiv(fsub(caption.end, caption.start),
         Num(MathCeilDiv(Len(words), maxWordsPerSegment)))

\* the chunk's start computed from the word offset instead of the chunk number
segmentStart_ByWord(caption, dur, i) ==
    fadd(caption.start, fmul(Num(i), dur))

segmentStart(caption, dur, i) ==
    fadd(caption.start, fmul(Num(i \div maxWordsPerSegment), dur))

segmentEnd(caption, dur, i) ==
    MathMin(fadd(caption.start,
                 fmul(Num((i + maxWordsPerSegment) \div maxWordsPerSegment), dur)),
            caption.end)

\* the for loop over i = 0, 6, 12, ... of one caption
RECURSIVE ChunkLoop(_, _, _, _)
ChunkLoop(caption, words, dur, i) ==
    IF i >= Len(words) THEN <<>>
    ELSE LET segmentWords == slice(words, i, i + maxWordsPerSegment)
         IN  <<[start |-> segmentStart(caption, dur, i),
                end   |-> segmentEnd(caption, dur, i),
                text  |-> join(segmentWords),
                words |-> segmentWords]>>
             \o ChunkLoop(caption, words, dur, i + maxWordsPerSegment)

\* the body of captions.forEach for one caption
ChunkCaption(caption) ==
    LET words == split(caption.text)
    IN  ChunkLoop(caption, words, segmentDuration(caption, words), 0)

\* captions.forEach(...) pushing into processed
RECURSIVE ProcessCaptions(_)
ProcessCaptions(list) ==
    IF Len(list) = 0 THEN <<>>
    ELSE ChunkCaption(Head(list)) \o ProcessCaptions(Tail(list))

\* ------------------------------------------------------------------ tracker
Contains(caption, t) == t >= caption.start /\ t <= caption.end

\* Array.prototype.find as a scan from the front: the index of the first
\* element the predicate accepts, 0 when find returns undefined
RECURSIVE FindFrom(_, _, _)
FindFrom(list, t, i) ==
    IF i > Len(list) THEN 0
    ELSE IF Contains(list[i], t) THEN i
    ELSE FindFrom(list, t, i + 1)

\* a scan from the back: the last element the predicate accepts
RECURSIVE FindLastFrom(_, _, _)
FindLastFrom(list, t, i) ==
    IF i < 1 THEN 0
    ELSE IF Contains(list[i], t) THEN i
    ELSE FindLastFrom(list, t, i - 1)

FindCurrent_Last(list, t) == FindLastFrom(list, t, Len(list))

FindCurrent(list, t) == FindFrom(list, t, 1)

segmentProgress(current, t) ==
    fdiv(fsub(t, current.start), fsub(current.end, current.start))

wordIndex(current, t) ==
    MathFloor(fmul(segmentProgress(current, t), Num(Len(current.words))))

\* the value handed to setHighlightedWordIndex
HighlightIndex(current, t) == MathMin(wordIndex(current, t), Len(current.words) - 1)

\* ------------------------------------------------------------------- inputs
Chars == {"a", Space}

ShortTexts == UNION {[1..n -> Chars] : n \in 0..MaxTextLen}

Alphabet == <<"a", "b", "c", "d", "e", "f", "g", "h", "i", "j", "k", "l", "m">>

\* n distinct one-letter words separated by single spaces
RECURSIVE LongText(_)
LongText(n) == IF n = 1 THEN <<Alphabet[1]>> ELSE LongText(n - 1) \o <<Space, Alphabet[n]>>

\* the same with a doubled space after the first word
GapText(n) == <<Alphabet[1], Space>> \o Tail(LongText(n))

LongTexts == {LongText(6), LongText(7), LongText(8), LongText(13), GapText(6)}

Texts == ShortTexts \cup LongTexts

Half == Scale \div 2

\* inputs of the chunker: every pair of these times, every text
\* the largest odd integer the number format holds exactly
MaxOdd == Num(TwoP - 1)

ChunkTimes == {0, Half, Num(6), Num(12), MaxOdd}

ChunkSegments == [start : ChunkTimes, end : ChunkTimes, text : Texts]

\* inputs of the player: an eight-word caption on a few spans (one of them
\* empty, two overlapping) and a one-word caption
PlayerSpans == {<<0, Num(12)>>, <<0, 0>>, <<Num(6), Num(12)>>}

PlayerSegments ==
    {[start |-> sp[1], end |-> sp[2], text |-> LongText(8)] : sp \in PlayerSpans}
        \cup {[start |-> 0, end |-> Num(12), text |-> <<"a">>]}

CaptionLists == UNION {[1..n -> PlayerSegments] : n \in 0..MaxCaptions}

PlayTimes == {0, Num(3), Num(6), Num(9), Num(12), Num(16)}

\* -------------------------------------------------------------------- state
VARIABLES
    captions,               \* the captions prop: [present, list]
    processedCaptions,      \* useState([])
    currentTime,            \* useState(0)
    currentCaption,         \* useState('')
    currentWords,           \* useState([])
    highlightedWordIndex,   \* useState(0)
    trackerPending          \* the tracker effect is scheduled for the next commit

\* the subtitle utilities of the backend (utils/srt.js), one call at a time
VARIABLES
    pc,                     \* which utility call has completed
    source,                 \* where the string under work came from
    seconds,                \* argument of secondsToSRTTime
    srtTime,                \* a timestamp string
    secondsBack,            \* result of srtTimeToSeconds
    text,                   \* argument of cleanTextForSRT
    cleanText,              \* its result
    segments,               \* argument of generateSRT
    srtContent,             \* SRT content
    parsed,                 \* result of parseSRTContent
    validation,             \* result of validateSRT
    thrown                  \* the error the last call threw, "none" if it returned

playerVars == <<captions, processedCaptions, currentTime, currentCaption, currentWords,
                highlightedWordIndex, trackerPending>>

utilVars == <<pc, source, seconds, srtTime, secondsBack, text, cleanText, segments,
              srtContent, parsed, validation, thrown>>

\* one request in the upload routes of the backend (routes/upload.js)
VARIABLES
    route,                  \* the path the request was posted to
    hasFile,                \* req.file is set
    hpc,                    \* where the handler is
    transcription,          \* what the transcriber resolved with
    handlerSrt,             \* the handler's srtContent
    handlerValidation,      \* the handler's validation
    removals,               \* calls of fs.remove on the uploaded file
    responses               \* the responses sent for the request

\* the uploader component (VideoUploader.jsx)
VARIABLES
    selectedFile,           \* 0 for null
    useHinglishModel,
    isLoading,
    isGeneratingCaptions,
    uploaderCaptions,       \* its captions state
    uploaderSrt,            \* its srtContent state
    captionsFrom,           \* the file whose audio the captions were made from
    upc,                    \* where the running extractAudio call is
    jobFile,                \* the selectedFile the running call closed over
    jobHinglish             \* the useHinglishModel the running call closed over

handlerVars == <<route, hasFile, hpc, transcription, handlerSrt, handlerValidation, removals,
                 responses>>

uploaderVars == <<selectedFile, useHinglishModel, isLoading, isGeneratingCaptions,
                  uploaderCaptions, uploaderSrt, captionsFrom, upc, jobFile, jobHinglish>>

uploadVars == <<handlerVars, uploaderVars>>

vars == <<playerVars, utilVars, uploadVars>>

Missing == [present |-> FALSE, list |-> <<>>]

NoValidation == [isValid |-> TRUE, errors |-> <<>>]

\* no request has been posted
HandlerIdle ==
    /\ route = "none"
    /\ hasFile = FALSE
    /\ hpc = "idle"
    /\ transcription = <<>>
    /\ handlerSrt = <<>>
    /\ handlerValidation = NoValidation
    /\ removals = 0
    /\ responses = <<>>

\* the useState initial values of VideoUploader
UploaderInit ==
    /\ selectedFile = 0
    /\ useHinglishModel = TRUE
    /\ isLoading = FALSE
    /\ isGeneratingCaptions = FALSE
    /\ uploaderCaptions = Missing
    /\ uploaderSrt = Missing
    /\ captionsFrom = 0
    /\ upc = "idle"
    /\ jobFile = 0
    /\ jobHinglish = TRUE

\* no utility has been called
UtilsIdle ==
    /\ pc = "idle"
    /\ source = "none"
    /\ seconds = 0
    /\ srtTime = <<>>
    /\ secondsBack = 0
    /\ text = <<>>
    /\ cleanText = <<>>
    /\ segments = <<>>
    /\ srtContent = <<>>
    /\ parsed = <<>>
    /\ validation = [isValid |-> TRUE, errors |-> <<>>]
    /\ thrown = "none"

Init ==
    /\ captions = Missing
    /\ processedCaptions = <<>>
    /\ currentTime = 0
    /\ currentCaption = <<>>
    /\ currentWords = <<>>
    /\ highlightedWordIndex = 0
    /\ trackerPending = FALSE
    /\ UtilsIdle
    /\ HandlerIdle
    /\ UploaderInit

\* what the chunk effect stores for a captions prop
Processed(c) == IF ~c.present \/ Len(c.list) = 0 THEN <<>> ELSE ProcessCaptions(c.list)

Present(l) == [present |-> TRUE, list |-> l]

\* the captions prop becomes c: the chunk effect runs on commit and its
\* setProcessedCaptions schedules the tracker effect
SetCaptionsTo(c) ==
    /\ captions' = c
    /\ processedCaptions' = Processed(c)
    /\ trackerPending' = TRUE
    /\ UNCHANGED <<currentTime, currentCaption, currentWords, highlightedWordIndex>>
    /\ UNCHANGED <<utilVars, uploadVars>>

\* the parent passes a new captions prop (a list, an empty list, or none)
SetCaptions == \E c \in {Missing} \cup {Present(l) : l \in CaptionLists} : SetCaptionsTo(c)

\* the component is mounted with a one-caption list
MountCaption ==
    /\ captions = Missing
    /\ ~trackerPending
    /\ \E seg \in ChunkSegments : SetCaptionsTo(Present(<<seg>>))

\* the video's timeupdate event: setCurrentTime(video.currentTime)
HandleTimeUpdate ==
    \E t \in PlayTimes :
        /\ currentTime' = t
        /\ trackerPending' = TRUE
        /\ UNCHANGED <<captions, processedCaptions, currentCaption, currentWords,
                       highlightedWordIndex>>
        /\ UNCHANGED <<utilVars, uploadVars>>

\* what the tracker effect leaves in (currentCaption, currentWords,
\* highlightedWordIndex) for a chunk list and a time, given the index stored before
TrackerResult(list, t, prevIndex) ==
    IF Len(list) = 0
    THEN [caption |-> <<>>, words |-> <<>>, index |-> prevIndex]
    ELSE LET k == FindCurrent(list, t)
         IN  IF k # 0
             THEN [caption |-> list[k].text, words |-> list[k].words,
                   index |-> HighlightIndex(list[k], t)]
             ELSE [caption |-> <<>>, words |-> <<>>, index |-> 0]

\* the effect on [currentTime, processedCaptions]
TrackerEffect ==
    /\ trackerPending
    /\ trackerPending' = FALSE
    /\ LET r == TrackerResult(processedCaptions, currentTime, highlightedWordIndex)
       IN  /\ currentCaption' = r.caption
           /\ currentWords' = r.words
           /\ highlightedWordIndex' = r.index
    /\ UNCHANGED <<captions, processedCaptions, currentTime>>
    /\ UNCHANGED <<utilVars, uploadVars>>

Next == SetCaptions \/ HandleTimeUpdate \/ TrackerEffect

Spec == Init /\ [][Next]_vars

\* the chunker on its own: one mount, then the tracker effect at time 0
NextChunk == MountCaption \/ TrackerEffect

SpecChunk == Init /\ [][NextChunk]_vars

\* ------------------------------------------------------- chunker properties
\* the chunk effect has run on a one-caption list
Chunked == captions.present /\ Len(captions.list) = 1 /\ ~trackerPending

\* that caption
Seg == captions.list[1]

\* the words of a text in the reading sense: maximal runs of non-space characters
WhitespaceWords(s) == SelectSeq(split(s), LAMBDA w : w # <<>>)

\* the chunks tile [start, end] of their caption
Tiles(p, seg) ==
    /\ Len(p) >= 1
    /\ p[1].start = seg.start
    /\ \A k \in 2..Len(p) : p[k].start = p[k - 1].end
    /\ p[Len(p)].end = seg.end
    /\ \A k \in 1..Len(p) :
          seg.start <= p[k].start /\ p[k].start <= p[k].end /\ p[k].end <= seg.end

\* C1: for a caption with non-empty text and end > start the chunks tile the
\* caption's interval: the first starts at start, each next one starts where
\* the previous ended, the last ends exactly at end, all lie inside [start, end]
C1_ChunksTileParent ==
    (Chunked /\ Seg.text # <<>> /\ Seg.end > Seg.start) => Tiles(processedCaptions, Seg)

\* C7: a caption whose text has no word (empty or only spaces) yields no chunk
C7_NoWordsNoChunks ==
    (Chunked /\ WhitespaceWords(Seg.text) = <<>>) => processedCaptions = <<>>

\* C8: for a caption with end <= start and at least one word every chunk is the
\* zero-width interval at start
C8_DegenerateCollapses ==
    (Chunked /\ Seg.end <= Seg.start /\ WhitespaceWords(Seg.text) # <<>>) =>
        \A k \in 1..Len(processedCaptions) :
            /\ processedCaptions[k].start = Seg.start
            /\ processedCaptions[k].end = Seg.start

\* C9: a caption with W >= 1 words yields ceil(W / 6) chunks, the k-th holding
\* words 6k .. 6k+5 of the text, so each chunk has 1 to 6 words and the chunks'
\* words in order are the words of the text
C9_WordSlices ==
    (Chunked /\ WhitespaceWords(Seg.text) # <<>>) =>
        LET ws == WhitespaceWords(Seg.text)
            p == processedCaptions
        IN  /\ Len(p) = MathCeilDiv(Len(ws), maxWordsPerSegment)
            /\ \A k \in 1..Len(p) :
                  /\ p[k].words = slice(ws, maxWordsPerSegment * (k - 1),
                                        maxWordsPerSegment * k)
                  /\ Len(p[k].words) \in 1..maxWordsPerSegment

\* the caption {start: 0, end: 12, text: eight words}
EightWords == [start |-> 0, end |-> Num(12), text |-> LongText(8)]

\* C10 as stated: the six-word chunk spans [0, 9), the two-word chunk [9, 12]
C10_SplitFollowsWords ==
    (Chunked /\ Seg = EightWords) =>
        /\ Len(processedCaptions) = 2
        /\ processedCaptions[1].words = slice(split(LongText(8)), 0, 6)
        /\ processedCaptions[1].start = 0
        /\ processedCaptions[1].end = Num(9)
        /\ processedCaptions[2].words = slice(split(LongText(8)), 6, 8)
        /\ processedCaptions[2].start = Num(9)
        /\ processedCaptions[2].end = Num(12)

\* C10 amended: the eight words give two chunks that split the time evenly,
\* six words on [0, 6] and two words on [6, 12], the second ending exactly at 12
C10_SplitIsEven ==
    (Chunked /\ Seg = EightWords) =>
        /\ Len(processedCaptions) = 2
        /\ processedCaptions[1].words = slice(split(LongText(8)), 0, 6)
        /\ processedCaptions[1].start = 0
        /\ processedCaptions[1].end = Num(6)
        /\ processedCaptions[2].words = slice(split(LongText(8)), 6, 8)
        /\ processedCaptions[2].start = Num(6)
        /\ processedCaptions[2].end = Num(12)

C10_Witness == Chunked /\ Seg = EightWords /\ Len(processedCaptions) = 2

\* ------------------------------------------------------- tracker properties
\* the tracker effect has run for the current time and chunk list
Tracked == ~trackerPending

\* the chunk the current time resolves to, 0 for none
Active == FindCurrent(processedCaptions, currentTime)

\* JavaScript's <= on numbers: false when either side is NaN
NumLeq(x, y) == x # NaN /\ y # NaN /\ x <= y

\* C2: when no chunk contains the current time the tracker shows no chunk and
\* the highlighted word index is 0
C2_NoneMeansIndexZero ==
    (Tracked /\ \A k \in 1..Len(processedCaptions) :
                    ~Contains(processedCaptions[k], currentTime)) =>
        /\ currentCaption = <<>>
        /\ currentWords = <<>>
        /\ highlightedWordIndex = 0

\* C3: when a chunk is active the stored index is an integer in
\* [0, wordCount - 1], and for a zero-width chunk it is wordCount - 1
C3_IndexInRange ==
    (Tracked /\ Active # 0) =>
        LET cur == processedCaptions[Active]
        IN  /\ highlightedWordIndex \in 0..(Len(cur.words) - 1)
            /\ cur.end = cur.start => highlightedWordIndex = Len(cur.words) - 1

\* C4: once the tracker has run, what it stores equals what a newly mounted
\* player computes from the current captions and the current time alone
C4_NoHistory ==
    Tracked =>
        LET fresh == TrackerResult(Processed(captions), currentTime, 0)
        IN  /\ currentCaption = fresh.caption
            /\ currentWords = fresh.words
            /\ highlightedWordIndex = fresh.index

\* C5: the tracker shows the first chunk in list order whose closed interval
\* contains the current time; on a time that ends one chunk and starts the
\* next it shows the earlier one
C5_FirstMatchWins ==
    \A k \in 1..Len(processedCaptions) :
        (/\ Tracked
         /\ Contains(processedCaptions[k], currentTime)
         /\ \A j \in 1..(k - 1) : ~Contains(processedCaptions[j], currentTime)) =>
            /\ currentCaption = processedCaptions[k].text
            /\ currentWords = processedCaptions[k].words

\* the current time ends chunk 1 and starts chunk 2, and chunk 1 is shown
C5_Witness ==
    /\ Tracked
    /\ Len(processedCaptions) >= 2
    /\ processedCaptions[1].start < processedCaptions[1].end
    /\ currentTime = processedCaptions[1].end
    /\ currentTime = processedCaptions[2].start
    /\ processedCaptions[1].words # processedCaptions[2].words
    /\ currentWords = processedCaptions[1].words

\* C6: over the times that resolve to one chunk the index never decreases as
\* the time grows, and at the chunk's end the stored index is wordCount - 1
C6_IndexMonotone ==
    /\ \A t1, t2 \in PlayTimes :
          (/\ t1 <= t2
           /\ FindCurrent(processedCaptions, t1) # 0
           /\ FindCurrent(processedCaptions, t1) = FindCurrent(processedCaptions, t2)) =>
              NumLeq(TrackerResult(processedCaptions, t1, 0).index,
                     TrackerResult(processedCaptions, t2, 0).index)
    /\ (Tracked /\ Active # 0 /\ currentTime = processedCaptions[Active].end) =>
          highlightedWordIndex = Len(processedCaptions[Active].words) - 1

\* ------------------------------------------------- timestamps (utils/srt.js)
\* The backend multiplies and divides by 1000, so its numbers carry more
\* bits than the player's: SrtPrecision significant bits, held as integer
\* counts of 2^-SrtFracBits.
SrtScale == Pow2(SrtFracBits)
SrtTwoP == Pow2(SrtPrecision)

RECURSIVE SrtSpacing(_, _, _)
SrtSpacing(a, den, g) == IF a < SrtTwoP * g * den THEN g ELSE SrtSpacing(a, den, 2 * g)

\* the magnitude a/den rounded to nearest, ties to even
SrtRoundMag(a, den) ==
    LET g == SrtSpacing(a, den, 1)
        d == den * g
        m == a \div d
        r == a - m * d
    IN  IF 2 * r > d \/ (2 * r = d /\ m % 2 = 1) THEN (m + 1) * g ELSE m * g

SrtRound(num, den) == IF num >= 0 THEN SrtRoundMag(num, den) ELSE -SrtRoundMag(-num, den)

\* an integer as a backend number
SrtNum(n) == n * SrtScale

\* the number a decimal literal of k thousandths denotes
Millis(k) == SrtRound(k * SrtScale, 1000)

\* x + y with a NaN operand counted as 0
SrtAdd_SkipNaN(x, y) ==
    SrtRound((IF x = NaN THEN 0 ELSE x) + (IF y = NaN THEN 0 ELSE y), 1)

\* x + y, NaN if either is NaN
SrtAdd(x, y) == IF x = NaN \/ y = NaN THEN NaN ELSE SrtRound(x + y, 1)

Digits == <<"0", "1", "2", "3", "4", "5", "6", "7", "8", "9">>

IsDigit(c) == \E d \in 1..10 : Digits[d] = c

DigitValue(c) == (CHOOSE d \in 1..10 : Digits[d] = c) - 1

\* Number.prototype.toString of a non-negative integer
RECURSIVE toString(_)
toString(n) == IF n < 10 THEN <<Digits[n + 1]>> ELSE Append(toString(n \div 10), Digits[(n % 10) + 1])

\* String.prototype.padStart(n, '0')
RECURSIVE padStart(_, _)
padStart(s, n) == IF Len(s) >= n THEN s ELSE padStart(<<"0">> \o s, n)

\* secondsToSRTTime(seconds), seconds finite and non-negative
secondsToSRTTime(x) ==
    LET hours == SrtRound(x, 3600) \div SrtScale
        minutes == SrtRound(x % SrtNum(3600), 60) \div SrtScale
        secs == (x % SrtNum(60)) \div SrtScale
        milliseconds == SrtRound((x % SrtScale) * 1000, 1) \div SrtScale
    IN  padStart(toString(hours), 2) \o <<":">> \o padStart(toString(minutes), 2) \o <<":">>
            \o padStart(toString(secs), 2) \o <<",">> \o padStart(toString(milliseconds), 3)

\* the first index from i on where sep stands, Len(s) + 1 if there is none
NextSep(s, sep, i) ==
    LET found == {j \in i..Len(s) : s[j] = sep}
    IN  IF found = {} THEN Len(s) + 1 ELSE CHOOSE j \in found : \A k \in found : j <= k

\* String.prototype.split(sep) for a one-character separator, of s from
\* index i on
RECURSIVE SplitOnFrom(_, _, _)
SplitOnFrom(s, sep, i) ==
    LET j == NextSep(s, sep, i)
    IN  IF j > Len(s) THEN <<SubSeq(s, i, Len(s))>>
        ELSE <<SubSeq(s, i, j - 1)>> \o SplitOnFrom(s, sep, j + 1)

SplitOn(s, sep) == SplitOnFrom(s, sep, 1)

Newline == "\n"

\* the characters \s matches and trim() removes
IsSpace(c) == c = Space \/ c = Newline

\* String.prototype.trim
RECURSIVE trimStart(_)
trimStart(s) == IF Len(s) > 0 /\ IsSpace(s[1]) THEN trimStart(Tail(s)) ELSE s

RECURSIVE trimEnd(_)
trimEnd(s) == IF Len(s) > 0 /\ IsSpace(s[Len(s)]) THEN trimEnd(SubSeq(s, 1, Len(s) - 1)) ELSE s

trim(s) == trimEnd(trimStart(s))

\* the value of a run of decimal digits
RECURSIVE DigitsValue(_)
DigitsValue(s) ==
    IF Len(s) = 0 THEN 0 ELSE 10 * DigitsValue(SubSeq(s, 1, Len(s) - 1)) + DigitValue(s[Len(s)])

\* Number(s) for a string of digits, blanks and other characters: blank is
\* 0, a run of digits is its value, anything else is NaN
NumberOf(s) ==
    LET t == trim(s)
    IN  IF \A i \in 1..Len(t) : IsDigit(t[i]) THEN DigitsValue(t) ELSE NaN

\* the leading digits of s
RECURSIVE DigitPrefix(_)
DigitPrefix(s) ==
    IF Len(s) > 0 /\ IsDigit(s[1]) THEN <<s[1]>> \o DigitPrefix(Tail(s)) ELSE <<>>

\* parseInt(s): the leading digits after blanks, NaN when there are none
parseInt(s) ==
    LET p == DigitPrefix(trimStart(s))
    IN  IF Len(p) = 0 THEN NaN ELSE DigitsValue(p)

\* element i (1-based) of a destructured array, NaN where it is undefined
Component(parts, i) == IF i <= Len(parts) THEN NumberOf(parts[i]) ELSE NaN

\* n * k for an integer or NaN n
SrtTimes(n, k) == IF n = NaN THEN NaN ELSE SrtRound(SrtNum(n * k), 1)

\* srtTimeToSeconds(srtTime)
srtTimeToSeconds(s) ==
    LET halves == SplitOn(s, ",")
        time == halves[1]
        ms == IF Len(halves) >= 2 THEN parseInt(halves[2]) ELSE NaN
        parts == SplitOn(time, ":")
        hours == Component(parts, 1)
        minutes == Component(parts, 2)
        secs == Component(parts, 3)
        fraction == IF ms = NaN THEN NaN ELSE SrtRound(SrtNum(ms), 1000)
    IN  SrtAdd(SrtAdd(SrtAdd(SrtTimes(hours, 3600), SrtTimes(minutes, 60)),
                      IF secs = NaN THEN NaN ELSE SrtNum(secs)),
               fraction)

\* ------------------------------------------------------ timestamp inputs
\* decimal literals where the spacing of the numbers is 2^-SrtFracBits
MinMillis == 1000 * Pow2(SrtPrecision - SrtFracBits - 1)

\* 1:02:05.453125, exactly representable
HourStamp == SrtNum(3725) + (29 * SrtScale) \div 64

SecondsInputs ==
    {Millis(k) : k \in MinMillis..MaxMillis}
        \cup {0, SrtScale \div 2, SrtNum(1), SrtNum(59), SrtNum(60), SrtNum(3600), HourStamp}

Bad == <<"b", "a", "d">>

StampInputs ==
    { Bad,
      <<>>,
      <<"0", "0", ":", "0", "0", ":", "0", "1", ",", "5", "0", "0">>,
      <<"0", "1", ":", "0", "2", ":", "0", "5", ",", "4", "5", "3">>,
      <<"1", ":", "2", ":", "3", ",", "4">>,
      <<"0", "0", ":", "0", "0", ":", "0", "5">>,
      <<"0", "0", ":", "x", "0", ":", "0", "5", ",", "0", "0", "0">>,
      <<"0", "0", ":", "0", "0", ":", "0", "5", ",", "5", "x">> }

\* ------------------------------------------------------------ utility calls
\* secondsToSRTTime(x)
CallSecondsToSRTTime ==
    /\ pc = "idle"
    /\ \E x \in SecondsInputs :
        /\ seconds' = x
        /\ srtTime' = secondsToSRTTime(x)
    /\ pc' = "formatted"
    /\ source' = "generated"
    /\ thrown' = "none"
    /\ UNCHANGED <<secondsBack, text, cleanText, segments, srtContent, parsed, validation>>
    /\ UNCHANGED <<playerVars, uploadVars>>

\* a timestamp string arrives from outside
LoadStamp ==
    /\ pc = "idle"
    /\ \E s \in StampInputs : srtTime' = s
    /\ pc' = "formatted"
    /\ source' = "raw"
    /\ UNCHANGED <<seconds, secondsBack, text, cleanText, segments, srtContent, parsed,
                   validation, thrown>>
    /\ UNCHANGED <<playerVars, uploadVars>>

\* srtTimeToSeconds(srtTime): no statement of it throws on a string
CallSrtTimeToSeconds ==
    /\ pc = "formatted"
    /\ secondsBack' = srtTimeToSeconds(srtTime)
    /\ thrown' = "none"
    /\ pc' = "converted"
    /\ UNCHANGED <<source, seconds, srtTime, text, cleanText, segments, srtContent, parsed,
                   validation>>
    /\ UNCHANGED <<playerVars, uploadVars>>

C17_StampRoundTrip ==
    (pc = "converted" /\ source = "generated") =>
        /\ secondsBack <= seconds
        /\ (seconds - secondsBack) * 1000 < SrtScale

\* ----------------------------------------------------- text (utils/srt.js)
LowerCase == <<"a", "b", "c", "d", "e", "f", "g", "h", "i", "j", "k", "l", "m",
               "n", "o", "p", "q", "r", "s", "t", "u", "v", "w", "x", "y", "z">>

UpperCase == <<"A", "B", "C", "D", "E", "F", "G", "H", "I", "J", "K", "L", "M",
               "N", "O", "P", "Q", "R", "S", "T", "U", "V", "W", "X", "Y", "Z">>

\* [a-z]
IsLower(c) == \E i \in 1..26 : LowerCase[i] = c

toUpperCase(c) == IF IsLower(c) THEN UpperCase[CHOOSE i \in 1..26 : LowerCase[i] = c] ELSE c

\* [.!?]
IsPunct(c) == c \in {".", "!", "?"}

\* the last index of the run of \s characters that starts at i
RECURSIVE SpaceRunEnd(_, _)
SpaceRunEnd(s, i) == IF i < Len(s) /\ IsSpace(s[i + 1]) THEN SpaceRunEnd(s, i + 1) ELSE i

\* replace(/\s+/g, ' ')
RECURSIVE CollapseFrom(_, _)
CollapseFrom(s, i) ==
    IF i > Len(s) THEN <<>>
    ELSE IF IsSpace(s[i]) THEN <<Space>> \o CollapseFrom(s, SpaceRunEnd(s, i) + 1)
    ELSE <<s[i]>> \o CollapseFrom(s, i + 1)

\* the index of the first '>' at or after i, 0 when there is none
RECURSIVE FirstClose(_, _)
FirstClose(s, i) ==
    IF i > Len(s) THEN 0 ELSE IF s[i] = ">" THEN i ELSE FirstClose(s, i + 1)

\* replace(/<[^>]*>/g, '')
RECURSIVE StripTagsFrom(_, _)
StripTagsFrom(s, i) ==
    IF i > Len(s) THEN <<>>
    ELSE IF s[i] = "<" /\ FirstClose(s, i + 1) # 0 THEN StripTagsFrom(s, FirstClose(s, i + 1) + 1)
    ELSE <<s[i]>> \o StripTagsFrom(s, i + 1)

\* replace(/\s+([.!?])/g, '$1')
RECURSIVE TightenFrom(_, _)
TightenFrom(s, i) ==
    IF i > Len(s) THEN <<>>
    ELSE IF IsSpace(s[i])
         THEN LET e == SpaceRunEnd(s, i)
              IN  IF e < Len(s) /\ IsPunct(s[e + 1])
                  THEN <<s[e + 1]>> \o TightenFrom(s, e + 2)
                  ELSE SubSeq(s, i, e) \o TightenFrom(s, e + 1)
    ELSE <<s[i]>> \o TightenFrom(s, i + 1)

\* replace(/([.!?])\s*([a-z])/g, punct + ' ' + letter.toUpperCase())
RECURSIVE CapitalizeFrom_Spacing(_, _)
CapitalizeFrom_Spacing(s, i) ==
    IF i > Len(s) THEN <<>>
    ELSE IF IsPunct(s[i])
         THEN LET e == IF i < Len(s) /\ IsSpace(s[i + 1]) THEN SpaceRunEnd(s, i + 1) ELSE i
              IN  IF e < Len(s) /\ IsLower(s[e + 1])
                  THEN <<s[i], Space, toUpperCase(s[e + 1])>> \o CapitalizeFrom_Spacing(s, e + 2)
                  ELSE <<s[i]>> \o CapitalizeFrom_Spacing(s, i + 1)
    ELSE <<s[i]>> \o CapitalizeFrom_Spacing(s, i + 1)

\* replace(/([.!?]\s+)([a-z])/g, punct + letter.toUpperCase())
RECURSIVE CapitalizeFrom(_, _)
CapitalizeFrom(s, i) ==
    IF i > Len(s) THEN <<>>
    ELSE IF IsPunct(s[i]) /\ i < Len(s) /\ IsSpace(s[i + 1])
         THEN LET e == SpaceRunEnd(s, i + 1)
              IN  IF e < Len(s) /\ IsLower(s[e + 1])
                  THEN SubSeq(s, i, e) \o <<toUpperCase(s[e + 1])>> \o CapitalizeFrom(s, e + 2)
                  ELSE <<s[i]>> \o CapitalizeFrom(s, i + 1)
    ELSE <<s[i]>> \o CapitalizeFrom(s, i + 1)

\* replace(/^[a-z]/, letter.toUpperCase())
CapitalizeFirst(s) ==
    IF Len(s) > 0 /\ IsLower(s[1]) THEN <<toUpperCase(s[1])>> \o Tail(s) ELSE s

\* cleanTextForSRT(text)
cleanTextForSRT(t) ==
    IF Len(t) = 0 THEN <<>>
    ELSE CapitalizeFirst(CapitalizeFrom(TightenFrom(StripTagsFrom(CollapseFrom(trim(t), 1), 1), 1), 1))

\* ---------------------------------------------------------------- text inputs
CleanChars == {"a", Space, "<", ">", "."}

\* '  hello   world.this is BAD  '
HelloWorld ==
    <<Space, Space, "h", "e", "l", "l", "o", Space, Space, Space, "w", "o", "r", "l", "d", ".",
      "t", "h", "i", "s", Space, "i", "s", Space, "B", "A", "D", Space, Space>>

TextInputs ==
    UNION {[1..n -> CleanChars] : n \in 0..MaxCleanLen}
        \cup { HelloWorld,
               <<"a", Newline, "a">>,
               <<"a", Space, "?", Space, "a">> }

\* cleanTextForSRT(t), and cleanTextForSRT of its result
CallCleanTextForSRT ==
    /\ pc = "idle"
    /\ \E t \in TextInputs :
        /\ text' = t
        /\ cleanText' = cleanTextForSRT(t)
    /\ pc' = "cleaned"
    /\ thrown' = "none"
    /\ UNCHANGED <<source, seconds, srtTime, secondsBack, segments, srtContent, parsed,
                   validation>>
    /\ UNCHANGED <<playerVars, uploadVars>>

\* C18: cleanTextForSRT is idempotent
C18_Idempotent ==
    pc = "cleaned" => cleanTextForSRT(cleanText) = cleanText

\* 'Hello world. This is BAD'
HelloWorldSpaced ==
    <<"H", "e", "l", "l", "o", Space, "w", "o", "r", "l", "d", ".", Space,
      "T", "h", "i", "s", Space, "i", "s", Space, "B", "A", "D">>

\* 'Hello world.this is BAD'
HelloWorldTight ==
    <<"H", "e", "l", "l", "o", Space, "w", "o", "r", "l", "d", ".",
      "t", "h", "i", "s", Space, "i", "s", Space, "B", "A", "D">>

\* C19: '  hello   world.this is BAD  ' normalizes to 'Hello world. This is BAD'
C19_InsertsSpace ==
    (pc = "cleaned" /\ text = HelloWorld) => cleanText = HelloWorldSpaced

\* C19: '  hello   world.this is BAD  ' normalizes to 'Hello world.this is BAD':
\* no space is inserted after the mark and the letter after it keeps its case
C19_KeepsTight ==
    (pc = "cleaned" /\ text = HelloWorld) => cleanText = HelloWorldTight

\* the example string has been cleaned
C19_Witness ==
    pc = "cleaned" /\ text = HelloWorld

\* ----------------------------------------------- SRT content (utils/srt.js)
Arrow == <<Space, "-", "-", ">", Space>>

\* one entry as generateSRT appends it: index line, time line, text line and
\* an empty line
EntryText(segment, index) ==
    toString(index + 1) \o <<Newline>>
        \o secondsToSRTTime(segment.start) \o Arrow \o secondsToSRTTime(segment.end) \o <<Newline>>
        \o cleanTextForSRT(segment.text) \o <<Newline>>
        \o <<Newline>>

\* the forEach of generateSRT from the 0-based index on
RECURSIVE AppendEntries(_, _)
AppendEntries(segs, index) ==
    IF index >= Len(segs) THEN <<>>
    ELSE EntryText(segs[index + 1], index) \o AppendEntries(segs, index + 1)

\* generateSRT(segments)
generateSRT(segs) == IF Len(segs) = 0 THEN <<>> ELSE trim(AppendEntries(segs, 0))

\* the first index from i on where '\n\n' starts, Len(s) + 1 if there is none
NextBlank(s, i) ==
    LET found == {j \in i..(Len(s) - 1) : s[j] = Newline /\ s[j + 1] = Newline}
    IN  IF found = {} THEN Len(s) + 1 ELSE CHOOSE j \in found : \A k \in found : j <= k

\* String.prototype.split('\n\n') of s from index i on: the separators are
\* matched from left to right and do not overlap
RECURSIVE SplitBlankFrom(_, _)
SplitBlankFrom(s, i) ==
    LET j == NextBlank(s, i)
    IN  IF j > Len(s) THEN <<SubSeq(s, i, Len(s))>>
        ELSE <<SubSeq(s, i, j - 1)>> \o SplitBlankFrom(s, j + 2)

SplitBlank(s) == SplitBlankFrom(s, 1)

\* Array.prototype.join('\n')
RECURSIVE joinLines(_)
joinLines(ls) ==
    IF Len(ls) = 0 THEN <<>>
    ELSE IF Len(ls) = 1 THEN ls[1]
    ELSE ls[1] \o <<Newline>> \o joinLines(Tail(ls))

\* /\d{2}:\d{2}:\d{2},\d{3}/, "d" standing for \d
StampPattern == <<"d", "d", ":", "d", "d", ":", "d", "d", ",", "d", "d", "d">>

\* /(\d{2}:\d{2}:\d{2},\d{3}) --> (\d{2}:\d{2}:\d{2},\d{3})/
RangePattern == StampPattern \o Arrow \o StampPattern

\* the pattern matches the characters of s that start at i
MatchesAt(s, i) ==
    /\ i + Len(RangePattern) - 1 <= Len(s)
    /\ \A k \in 1..Len(RangePattern) :
          IF RangePattern[k] = "d" THEN IsDigit(s[i + k - 1]) ELSE s[i + k - 1] = RangePattern[k]

\* String.prototype.match: where the leftmost match from i on starts, 0 for
\* null
MatchFrom(s, i) ==
    LET found == {j \in i..Len(s) : MatchesAt(s, j)}
    IN  IF found = {} THEN 0 ELSE CHOOSE j \in found : \A k \in found : j <= k

timeMatch(line) == MatchFrom(line, 1)

\* the segment parseSRTContent pushes for an accepted entry
EntrySegment(lines) ==
    LET at == timeMatch(lines[2])
        first == SubSeq(lines[2], at, at + Len(StampPattern) - 1)
        second == SubSeq(lines[2], at + Len(StampPattern) + Len(Arrow), at + Len(RangePattern) - 1)
    IN  [start |-> srtTimeToSeconds(first),
         end |-> srtTimeToSeconds(second),
         text |-> trim(joinLines(slice(lines, 2, Len(lines))))]

\* acceptance that counts only the lines that are not empty
Accepts_NonEmpty(entry) ==
    LET lines == SplitOn(entry, Newline)
    IN  /\ Cardinality({i \in 1..Len(lines) : lines[i] # <<>>}) >= 3
        /\ Len(lines) >= 3
        /\ timeMatch(lines[2]) # 0

\* the two conditions under which parseSRTContent pushes a segment
Accepts(entry) ==
    LET lines == SplitOn(entry, Newline)
    IN  Len(lines) >= 3 /\ timeMatch(lines[2]) # 0

\* the loop of parseSRTContent over the entries
RECURSIVE ParseEntries(_)
ParseEntries(entries) ==
    IF Len(entries) = 0 THEN <<>>
    ELSE (IF Accepts(entries[1]) THEN <<EntrySegment(SplitOn(entries[1], Newline))>> ELSE <<>>)
            \o ParseEntries(Tail(entries))

\* parseSRTContent(srtContent)
parseSRTContent(content) == ParseEntries(SplitBlank(trim(content)))

\* the overlap loop with >= in place of >
RECURSIVE OverlapErrors_Touching(_, _)
OverlapErrors_Touching(segs, i) ==
    IF i >= Len(segs) - 1 THEN <<>>
    ELSE (IF segs[i + 1].end >= segs[i + 2].start
          THEN <<<<"Overlapping timestamps at entry", i + 1, i + 2>>>>
          ELSE <<>>) \o OverlapErrors_Touching(segs, i + 1)

\* the overlap loop of validateSRT from the 0-based index i on
RECURSIVE OverlapErrors(_, _)
OverlapErrors(segs, i) ==
    IF i >= Len(segs) - 1 THEN <<>>
    ELSE (IF segs[i + 1].end > segs[i + 2].start
          THEN <<<<"Overlapping timestamps at entry", i + 1, i + 2>>>>
          ELSE <<>>) \o OverlapErrors(segs, i + 1)

\* the duration loop with < in place of <=
RECURSIVE DurationErrors_Strict(_, _)
DurationErrors_Strict(segs, index) ==
    IF index >= Len(segs) THEN <<>>
    ELSE (IF segs[index + 1].end < segs[index + 1].start
          THEN <<<<"Invalid duration at entry", index + 1>>>>
          ELSE <<>>) \o DurationErrors_Strict(segs, index + 1)

\* the duration loop of validateSRT from the 0-based index on
RECURSIVE DurationErrors(_, _)
DurationErrors(segs, index) ==
    IF index >= Len(segs) THEN <<>>
    ELSE (IF segs[index + 1].end <= segs[index + 1].start
          THEN <<<<"Invalid duration at entry", index + 1>>>>
          ELSE <<>>) \o DurationErrors(segs, index + 1)

\* validateSRT(srtContent)
validateSRT(content) ==
    IF Len(content) = 0
    THEN [isValid |-> FALSE, errors |-> <<<<"SRT content is empty or invalid">>>>]
    ELSE LET segs == parseSRTContent(content)
             errors == OverlapErrors(segs, 0) \o DurationErrors(segs, 0)
         IN  IF Len(segs) = 0
             THEN [isValid |-> FALSE, errors |-> <<<<"No valid subtitle entries found">>>>]
             ELSE [isValid |-> Len(errors) = 0, errors |-> errors]

\* ------------------------------------------------------------- SRT inputs
Segment(start, end, t) == [start |-> start, end |-> end, text |-> t]

\* 1 + 20 * 2^-SrtFracBits and 1 + 3 * 2^-SrtFracBits are less than a
\* millisecond above 1
SrtSegments ==
    { Segment(0, SrtNum(1), <<"a">>),
      Segment(SrtScale \div 2, SrtNum(2), <<"b">>),
      Segment(0, SrtNum(1), <<>>),
      Segment(0, SrtNum(1), <<"a", Space, "<", ">">>),
      Segment(0, SrtNum(1) + 20, <<"a">>),
      Segment(SrtNum(1) + 3, SrtNum(2), <<"a">>),
      Segment(Millis(MinMillis + 4), Millis(MinMillis + 100), <<"a">>),
      Segment(SrtNum(3600), HourStamp, <<"a">>),
      Segment(SrtNum(2), SrtNum(2), <<"a">>) }

SegmentLists == UNION {[1..n -> SrtSegments] : n \in 0..MaxCaptions}

\* '00:00:00,000 --> 00:00:01,000'
RangeLine ==
    <<"0", "0", ":", "0", "0", ":", "0", "0", ",", "0", "0", "0">> \o Arrow
        \o <<"0", "0", ":", "0", "0", ":", "0", "1", ",", "0", "0", "0">>

\* '00:00:00,500 --> 00:00:02,000'
LateRangeLine ==
    <<"0", "0", ":", "0", "0", ":", "0", "0", ",", "5", "0", "0">> \o Arrow
        \o <<"0", "0", ":", "0", "0", ":", "0", "2", ",", "0", "0", "0">>

SrtLines == { <<"1">>, RangeLine, <<"a">>, <<>> }

\* '00:00:02,000 --> 00:00:00,500'
BackwardRangeLine ==
    <<"0", "0", ":", "0", "0", ":", "0", "2", ",", "0", "0", "0">> \o Arrow
        \o <<"0", "0", ":", "0", "0", ":", "0", "0", ",", "5", "0", "0">>

\* two or three entries, each an index line, a time line and a text line
EntryLists ==
    { <<<<"1">>, BackwardRangeLine, <<"a">>>>,
      <<<<"1">>, RangeLine, <<"a">>, <<>>, <<"2">>, BackwardRangeLine, <<"a">>>> } \cup
    { <<<<"1">>, r1, <<"a">>, <<>>, <<"2">>, r2, <<"a">>>> : r1, r2 \in {RangeLine, LateRangeLine} }
        \cup { <<<<"1">>, LateRangeLine, <<"a">>, <<>>, <<"2">>, RangeLine, <<"a">>, <<>>,
                 <<"3">>, RangeLine, <<"a">>>>,
               <<<<"1">>, <<"x">> \o RangeLine \o <<"x">>, <<"a">>, <<"a">>, <<"a">>>> }

SrtInputs ==
    {joinLines(ls) : ls \in UNION {[1..n -> SrtLines] : n \in 0..MaxLines}}
        \cup {joinLines(ls) : ls \in EntryLists}

\* ------------------------------------------------------- calls on content
\* generateSRT(segments)
CallGenerateSRT ==
    /\ pc = "idle"
    /\ \E segs \in SegmentLists :
        /\ segments' = segs
        /\ srtContent' = generateSRT(segs)
    /\ pc' = "serialized"
    /\ source' = "generated"
    /\ thrown' = "none"
    /\ UNCHANGED <<seconds, srtTime, secondsBack, text, cleanText, parsed, validation>>
    /\ UNCHANGED <<playerVars, uploadVars>>

\* SRT content arrives from outside
LoadSRT ==
    /\ pc = "idle"
    /\ \E c \in SrtInputs : srtContent' = c
    /\ pc' = "serialized"
    /\ source' = "raw"
    /\ UNCHANGED <<seconds, srtTime, secondsBack, text, cleanText, segments, parsed,
                   validation, thrown>>
    /\ UNCHANGED <<playerVars, uploadVars>>

\* a parseSRTContent that throws when it has accepted no entry
CallParseSRTContent_Throwing ==
    /\ pc = "serialized"
    /\ IF Len(parseSRTContent(srtContent)) = 0 /\ trim(srtContent) # <<>>
       THEN thrown' = "FormatError" /\ parsed' = parsed
       ELSE thrown' = "none" /\ parsed' = parseSRTContent(srtContent)
    /\ pc' = "parsed"
    /\ UNCHANGED <<source, seconds, srtTime, secondsBack, text, cleanText, segments,
                   srtContent, validation>>
    /\ UNCHANGED <<playerVars, uploadVars>>

\* parseSRTContent(srtContent): no statement of it throws on a string
CallParseSRTContent ==
    /\ pc = "serialized"
    /\ parsed' = parseSRTContent(srtContent)
    /\ thrown' = "none"
    /\ pc' = "parsed"
    /\ UNCHANGED <<source, seconds, srtTime, secondsBack, text, cleanText, segments,
                   srtContent, validation>>
    /\ UNCHANGED <<playerVars, uploadVars>>

\* validateSRT(srtContent)
CallValidateSRT ==
    /\ pc \in {"serialized", "parsed"}
    /\ validation' = validateSRT(srtContent)
    /\ thrown' = "none"
    /\ pc' = "validated"
    /\ UNCHANGED <<source, seconds, srtTime, secondsBack, text, cleanText, segments,
                   srtContent, parsed>>
    /\ UNCHANGED <<playerVars, uploadVars>>

NextSrt ==
    \/ CallSecondsToSRTTime
    \/ LoadStamp
    \/ CallSrtTimeToSeconds
    \/ CallCleanTextForSRT
    \/ CallGenerateSRT
    \/ LoadSRT
    \/ CallParseSRTContent
    \/ CallValidateSRT

\* the subtitle utilities, each called on every input
SpecSrt == Init /\ [][NextSrt]_vars

\* --------------------------------------------------- claims on SRT content
Generated == source = "generated"

\* start >= 0 and end > start for every segment
WellFormed(segs) == \A k \in 1..Len(segs) : segs[k].start >= 0 /\ segs[k].end > segs[k].start

\* x and y are at most one millisecond apart
WithinMilli(x, y) == (x - y) * 1000 <= SrtScale /\ (y - x) * 1000 <= SrtScale

\* C11: parsing what generateSRT wrote for a well-formed list gives as many
\* entries in the same order, start and end within 1 ms of the originals and
\* the text equal to cleanTextForSRT of the original text
C11_RoundTrip ==
    (pc = "parsed" /\ Generated /\ WellFormed(segments)) =>
        /\ Len(parsed) = Len(segments)
        /\ \A k \in 1..Len(parsed) :
              /\ WithinMilli(parsed[k].start, segments[k].start)
              /\ WithinMilli(parsed[k].end, segments[k].end)
              /\ parsed[k].text = cleanTextForSRT(segments[k].text)

\* the lines the k-th entry is said to consist of
EntryLines(segs, k) ==
    << toString(k),
       secondsToSRTTime(segs[k].start) \o Arrow \o secondsToSRTTime(segs[k].end),
       cleanTextForSRT(segs[k].text) >>

\* the entries of the first n segments, one empty line between two entries
RECURSIVE EntriesLines(_, _)
EntriesLines(segs, n) ==
    IF n = 0 THEN <<>>
    ELSE IF n = 1 THEN EntryLines(segs, 1)
    ELSE EntriesLines(segs, n - 1) \o <<<<>>>> \o EntryLines(segs, n)

\* C12: generateSRT of the empty list is the empty string; otherwise the
\* output is, entry by entry in input order, the index line, the time line
\* and the cleaned text line, one empty line between entries and none at the
\* end
C12_EntryLayout ==
    (pc = "serialized" /\ Generated) =>
        IF Len(segments) = 0 THEN srtContent = <<>>
        ELSE SplitOn(srtContent, Newline) = EntriesLines(segments, Len(segments))

\* the entries parseSRTContent loops over
Entries == SplitBlank(trim(srtContent))

\* how many lines of the entry are not empty
NonEmptyLines(entry) ==
    LET lines == SplitOn(entry, Newline)
    IN  Cardinality({i \in 1..Len(lines) : lines[i] # <<>>})

\* the second line of the entry contains the timestamp range
SecondLineMatches(entry) ==
    LET lines == SplitOn(entry, Newline)
    IN  Len(lines) >= 2 /\ MatchFrom(lines[2], 1) # 0

\* the segments of the entries that pass the test, in entry order
Kept(entries, Test(_)) ==
    LET sel == SelectSeq(entries, Test)
    IN  [k \in 1..Len(sel) |-> EntrySegment(SplitOn(sel[k], Newline))]

ThreeNonEmpty(entry) == NonEmptyLines(entry) >= 3 /\ SecondLineMatches(entry)

ThreeLines(entry) == Len(SplitOn(entry, Newline)) >= 3 /\ SecondLineMatches(entry)

\* C13: an entry is accepted only if it has at least 3 non-empty lines and
\* its second line matches; the result is one segment per accepted entry in
\* input order
C13_ThreeNonEmptyLines ==
    pc = "parsed" => parsed = Kept(Entries, ThreeNonEmpty)

\* C13: an entry is accepted exactly if it has at least 3 lines, empty lines
\* counted, and its second line contains the timestamp range; the result is
\* one segment per accepted entry in input order
C13_ThreeLines ==
    pc = "parsed" => parsed = Kept(Entries, ThreeLines)

\* an entry with an empty first line and two more lines has been accepted
C13_Witness ==
    /\ pc = "parsed"
    /\ \E i \in 1..Len(Entries) : ThreeLines(Entries[i]) /\ ~ThreeNonEmpty(Entries[i])
    /\ Len(parsed) >= 1

\* no entry of the content is accepted
NothingAccepted == \A i \in 1..Len(Entries) : ~ThreeLines(Entries[i])

C15_NoLineBreak ==
    pc = "parsed" =>
        \A k \in 1..Len(parsed) : \A i \in 1..Len(parsed[k].text) : parsed[k].text[i] # Newline

\* the overlap error for the 1-based entries i and i + 1
OverlapError(i) == <<"Overlapping timestamps at entry", i, i + 1>>

\* the errors of the result, as a set
Errors == {validation.errors[k] : k \in 1..Len(validation.errors)}

\* [{start: 0, end: 1, text: 'a'}, {start: 0.5, end: 2, text: 'b'}]
OverlapExample ==
    << [start |-> 0, end |-> SrtNum(1), text |-> <<"a">>],
       [start |-> SrtScale \div 2, end |-> SrtNum(2), text |-> <<"b">>] >>

\* what parseSRTContent reads from the content
Read == parseSRTContent(srtContent)

\* the overlap errors of the result, in the order they were appended
Overlaps == SelectSeq(validation.errors, LAMBDA e : e[1] = OverlapError(1)[1])

\* one overlap error for each adjacent pair of parsed segments with
\* end > next start and for no other pair, in parse order
OverlapsOfAdjacentPairs ==
    (pc = "validated" /\ Len(Read) > 0) =>
        /\ \A i \in 1..(Len(Read) - 1) :
              (OverlapError(i) \in Errors) <=> (Read[i].end > Read[i + 1].start)
        /\ \A j \in 1..Len(Overlaps) :
              /\ Overlaps[j] = OverlapError(Overlaps[j][2])
              /\ Overlaps[j][2] \in 1..(Len(Read) - 1)
              /\ j > 1 => Overlaps[j - 1][2] < Overlaps[j][2]

\* C20: the overlap errors are exactly those of the adjacent parsed pairs
\* with end > next start, so validateSRT(generateSRT(segments)) is invalid
\* with an overlap error for entries 1 and 2 whenever the second segment
\* starts before the first ends (read here for the lists whose every text
\* leaves a text line in the content)
C20_OverlapOfSegments ==
    /\ OverlapsOfAdjacentPairs
    /\ (/\ pc = "validated" /\ Generated /\ Len(segments) >= 2
        /\ \A k \in 1..Len(segments) : cleanTextForSRT(segments[k].text) # <<>>
        /\ segments[2].start < segments[1].end) =>
          (~validation.isValid /\ OverlapError(1) \in Errors)

\* C20: the overlap errors are exactly those of the adjacent parsed pairs
\* with end > next start, so the content generated from the example list is
\* invalid with an overlap error for entries 1 and 2
C20_OverlapOfParsed ==
    /\ OverlapsOfAdjacentPairs
    /\ (pc = "validated" /\ Generated /\ segments = OverlapExample) =>
          (~validation.isValid /\ OverlapError(1) \in Errors)

\* the content generated from the example list has been validated
C20_Witness ==
    pc = "validated" /\ Generated /\ segments = OverlapExample

\* the duration error for the 1-based entry i
DurationError(i) == <<"Invalid duration at entry", i>>

\* the duration errors of the result, in the order they were appended
Durations == SelectSeq(validation.errors, LAMBDA e : e[1] = DurationError(1)[1])

\* C21: validateSRT reports an invalid-duration error naming entry i + 1 for
\* exactly the parsed segments with end <= start, and isValid is true if and
\* only if the errors list is empty
C21_InvalidDurations ==
    pc = "validated" =>
        /\ \A i \in 1..Len(Read) : (DurationError(i) \in Errors) <=> (Read[i].end <= Read[i].start)
        /\ \A j \in 1..Len(Durations) :
              /\ Durations[j] = DurationError(Durations[j][2])
              /\ Durations[j][2] \in 1..Len(Read)
        /\ validation.isValid <=> (Len(validation.errors) = 0)

\* content with a segment of positive duration and one with end <= start
\* has been validated
C21_Witness ==
    /\ pc = "validated"
    /\ \E i, j \in 1..Len(Read) :
          /\ Read[i].end <= Read[i].start
          /\ Read[j].end > Read[j].start
          /\ DurationError(i) \in Errors

\* ------------------------------------------- upload routes (routes/upload.js)
Routes == {"/upload-audio", "/upload-audio-hinglish"}

\* the names utils/whisper.js exports
WhisperExports == {"processAudioWithWhisper", "processAudioWithWhisperSimple"}

\* the name a route calls to transcribe
Transcriber(r) ==
    IF r = "/upload-audio" THEN "processAudioWithWhisper" ELSE "processAudioWithHinglishWhisper"

\* segments as the transcriber reads them from Whisper's SRT output
WhisperSegments ==
    {Segment(sp[1], sp[2], t) :
        sp \in { <<0, SrtNum(1)>>, <<SrtScale \div 2, SrtNum(2)>>, <<SrtNum(1), SrtNum(2)>>,
                 <<SrtNum(2), SrtNum(2)>> },
        t \in { <<"a">>, <<"b">> }}

Transcriptions == UNION {[1..n -> WhisperSegments] : n \in 0..MaxCaptions}

\* res.status(400).json({error: true, ...})
BadRequest ==
    [status |-> 400, success |-> FALSE, error |-> TRUE, srt |-> <<>>, transcription |-> <<>>,
     validation |-> NoValidation]

\* res.status(500).json({error: true, ...})
ServerError ==
    [status |-> 500, success |-> FALSE, error |-> TRUE, srt |-> <<>>, transcription |-> <<>>,
     validation |-> NoValidation]

\* res.json({success: true, srt, transcription, validation, ...}); the fields
\* captions, filename, duration and segmentCount are derived from the
\* transcription and left out
Success ==
    [status |-> 200, success |-> TRUE, error |-> FALSE, srt |-> handlerSrt,
     transcription |-> transcription, validation |-> handlerValidation]

\* a request reaches a route: without a file it is answered with 400; with a
\* file the transcriber is called, and calling a name that is not exported
\* (undefined) throws into the catch block
Receive(r, file) ==
    /\ hpc \in {"idle", "done"}
    /\ route' = r
    /\ hasFile' = file
    /\ transcription' = <<>>
    /\ handlerSrt' = <<>>
    /\ handlerValidation' = NoValidation
    /\ removals' = 0
    /\ IF ~file
       THEN responses' = <<BadRequest>> /\ hpc' = "done"
       ELSE /\ responses' = <<>>
            /\ hpc' = IF Transcriber(r) \in WhisperExports THEN "transcribing" ELSE "catching"

\* some client posts to a route
PostUpload ==
    /\ \E r \in Routes, file \in BOOLEAN : Receive(r, file)
    /\ UNCHANGED <<playerVars, utilVars, uploaderVars>>

\* the transcriber resolves; generateSRT and validateSRT run, and fs.remove
\* is awaited
TranscriptionResolves ==
    /\ hpc = "transcribing"
    /\ \E t \in Transcriptions :
        /\ transcription' = t
        /\ handlerSrt' = generateSRT(t)
        /\ handlerValidation' = validateSRT(handlerSrt')
    /\ hpc' = "removing"
    /\ UNCHANGED <<route, hasFile, removals, responses>>
    /\ UNCHANGED <<playerVars, utilVars, uploaderVars>>

\* the transcriber rejects
TranscriptionRejects ==
    /\ hpc = "transcribing"
    /\ hpc' = "catching"
    /\ UNCHANGED <<route, hasFile, transcription, handlerSrt, handlerValidation, removals,
                   responses>>
    /\ UNCHANGED <<playerVars, utilVars, uploaderVars>>

\* await fs.remove(audioFilePath) resolves
RemoveSucceeds ==
    /\ hpc = "removing"
    /\ removals' = removals + 1
    /\ hpc' = "responding"
    /\ UNCHANGED <<route, hasFile, transcription, handlerSrt, handlerValidation, responses>>
    /\ UNCHANGED <<playerVars, utilVars, uploaderVars>>

\* await fs.remove(audioFilePath) rejects
RemoveThrows ==
    /\ hpc = "removing"
    /\ removals' = removals + 1
    /\ hpc' = "catching"
    /\ UNCHANGED <<route, hasFile, transcription, handlerSrt, handlerValidation, responses>>
    /\ UNCHANGED <<playerVars, utilVars, uploaderVars>>

\* a handler that answers with the error response when validation failed
SendSuccess_Strict ==
    /\ hpc = "responding"
    /\ responses' = Append(responses, IF handlerValidation.isValid THEN Success ELSE ServerError)
    /\ hpc' = "done"
    /\ UNCHANGED <<route, hasFile, transcription, handlerSrt, handlerValidation, removals>>
    /\ UNCHANGED <<playerVars, utilVars, uploaderVars>>

\* res.json of the success body
SendSuccess ==
    /\ hpc = "responding"
    /\ responses' = Append(responses, Success)
    /\ hpc' = "done"
    /\ UNCHANGED <<route, hasFile, transcription, handlerSrt, handlerValidation, removals>>
    /\ UNCHANGED <<playerVars, utilVars, uploaderVars>>

\* a catch block that does not remove the file
CatchRemove_Skipped ==
    /\ hpc = "catching"
    /\ hpc' = "failing"
    /\ UNCHANGED <<route, hasFile, transcription, handlerSrt, handlerValidation, removals,
                   responses>>
    /\ UNCHANGED <<playerVars, utilVars, uploaderVars>>

\* the catch block removes the file; an error of the removal is logged only
CatchRemove ==
    /\ hpc = "catching"
    /\ removals' = removals + 1
    /\ hpc' = "failing"
    /\ UNCHANGED <<route, hasFile, transcription, handlerSrt, handlerValidation, responses>>
    /\ UNCHANGED <<playerVars, utilVars, uploaderVars>>

\* res.status(500).json of the catch block
SendError ==
    /\ hpc = "failing"
    /\ responses' = Append(responses, ServerError)
    /\ hpc' = "done"
    /\ UNCHANGED <<route, hasFile, transcription, handlerSrt, handlerValidation, removals>>
    /\ UNCHANGED <<playerVars, utilVars, uploaderVars>>

\* the steps of a handler after the request has arrived
HandlerStep ==
    \/ TranscriptionRejects
    \/ TranscriptionResolves
    \/ RemoveSucceeds
    \/ RemoveThrows
    \/ SendSuccess
    \/ CatchRemove
    \/ SendError

NextUpload == PostUpload \/ HandlerStep

\* requests to the upload routes, one after the other
SpecUpload == Init /\ [][NextUpload]_vars

\* requests to the upload routes where every pending step of a handler is
\* eventually taken: a settled promise resumes the handler, and the
\* transcriber's process ends
FairSpecUpload == SpecUpload /\ WF_vars(HandlerStep)

\* ------------------------------------------------ claims on the upload routes
\* the handler has finished a request that went through validation and
\* validation reported isValid false
InvalidReported == hpc = "done" /\ ~handlerValidation.isValid

\* C22: validation never changes the subtitle content, and a request whose
\* validation reported isValid false is answered with the success response
\* that carries the serialized subtitles, the transcription and the
\* validation result
C22_InvalidStillSucceeds ==
    InvalidReported =>
        /\ handlerSrt = generateSRT(transcription)
        /\ responses = <<Success>>
        /\ handlerValidation = validateSRT(handlerSrt)

\* C22: as above, unless removing the uploaded file failed after validation
\* (two removals were attempted), where the answer is the error response
C22_InvalidSucceedsUnlessRemoveFails ==
    InvalidReported =>
        /\ handlerSrt = generateSRT(transcription)
        /\ handlerValidation = validateSRT(handlerSrt)
        /\ IF removals = 1 THEN responses = <<Success>> ELSE responses = <<ServerError>>

\* an empty transcription was validated as invalid and answered with success
C22_Witness ==
    /\ InvalidReported
    /\ transcription = <<>>
    /\ responses = <<Success>>

\* a request with a file has at most one response, none before a removal of
\* the file was attempted, and the response is the success body or status
\* 500 with error: true
OneResponseAfterRemoval ==
    /\ Len(responses) <= 1
    /\ (hasFile /\ Len(responses) = 1) =>
          /\ removals >= 1
          /\ hpc = "done"
          /\ \/ responses[1].status = 200 /\ responses[1].success
             \/ responses[1].status = 500 /\ responses[1].error
    /\ (hasFile /\ hpc = "done") => Len(responses) = 1

\* C23: on every path of a request with a file the removal of the file is
\* attempted before the response, exactly one response is sent, and every
\* such request is answered
C23_RemoveThenRespondOnce ==
    /\ []OneResponseAfterRemoval
    /\ (hasFile /\ hpc # "done") ~> (hasFile /\ hpc = "done" /\ Len(responses) = 1)

\* the removal after a resolved transcription failed, the catch block tried
\* again and the request was answered with status 500
C23_Witness ==
    /\ hasFile
    /\ hpc = "done"
    /\ removals = 2
    /\ responses = <<ServerError>>

\* C24: a request with a file to /upload-audio-hinglish calls a transcriber
\* that utils/whisper.js exports
C24_HinglishTranscribes ==
    (route = "/upload-audio-hinglish" /\ hasFile) => Transcriber(route) \in WhisperExports

\* ------------------------------- uploader (components/VideoUploader.jsx)
MaxFiles == 2

\* the video files a user can pick; 0 stands for null
Files == 1..MaxFiles

\* handleFileSelect with a video file: the file is selected and the results
\* of the previous file are cleared; the upload zone is active at all times.
\* A file that is not a video only raises an alert
SelectFile(f) ==
    /\ selectedFile' = f
    /\ uploaderCaptions' = Missing
    /\ uploaderSrt' = Missing
    /\ captionsFrom' = 0
    /\ UNCHANGED <<useHinglishModel, isLoading, isGeneratingCaptions, upc, jobFile, jobHinglish>>
    /\ UNCHANGED <<playerVars, utilVars, handlerVars>>

\* the model checkbox, rendered once a file is selected
ToggleModel ==
    /\ selectedFile # 0
    /\ useHinglishModel' = ~useHinglishModel
    /\ UNCHANGED <<selectedFile, isLoading, isGeneratingCaptions, uploaderCaptions, uploaderSrt,
                   captionsFrom, upc, jobFile, jobHinglish>>
    /\ UNCHANGED <<playerVars, utilVars, handlerVars>>

\* extractAudio, up to its first await: the button is rendered once a file is
\* selected and disabled while isLoading or isGeneratingCaptions; the closure
\* keeps the file and the model of the render it was created in
ExtractAudio ==
    /\ selectedFile # 0
    /\ ~(isLoading \/ isGeneratingCaptions)
    /\ upc = "idle"
    /\ isLoading' = TRUE
    /\ jobFile' = selectedFile
    /\ jobHinglish' = useHinglishModel
    /\ upc' = "extracting"
    /\ UNCHANGED <<selectedFile, useHinglishModel, isGeneratingCaptions, uploaderCaptions,
                   uploaderSrt, captionsFrom>>
    /\ UNCHANGED <<playerVars, utilVars, handlerVars>>

\* ffmpeg throws: the catch block of extractAudio raises an alert
ExtractionFails ==
    /\ upc = "extracting"
    /\ isLoading' = FALSE
    /\ upc' = "idle"
    /\ UNCHANGED <<selectedFile, useHinglishModel, isGeneratingCaptions, uploaderCaptions,
                   uploaderSrt, captionsFrom, jobFile, jobHinglish>>
    /\ UNCHANGED <<playerVars, utilVars, handlerVars>>

\* the route generateCaptions posts to
Endpoint(hinglish) == IF hinglish THEN "/upload-audio-hinglish" ELSE "/upload-audio"

\* generateCaptions, up to the await of fetch: the extracted audio is posted
GenerateCaptions ==
    /\ upc = "extracting"
    /\ isGeneratingCaptions' = TRUE
    /\ upc' = "fetching"
    /\ Receive(Endpoint(jobHinglish), TRUE)
    /\ UNCHANGED <<selectedFile, useHinglishModel, isLoading, uploaderCaptions, uploaderSrt,
                   captionsFrom, jobFile, jobHinglish>>
    /\ UNCHANGED <<playerVars, utilVars>>

\* the rest of generateCaptions on a response: a success body sets captions
\* and srtContent; any other response raises an alert. captionsFrom records
\* the file whose audio the captions were generated from
Install(response) ==
    IF response.status = 200 /\ response.success
    THEN /\ uploaderCaptions' = Present(response.transcription)
         /\ uploaderSrt' = Present(response.srt)
         /\ captionsFrom' = jobFile
    ELSE UNCHANGED <<uploaderCaptions, uploaderSrt, captionsFrom>>

\* the response of the route arrives; generateCaptions and extractAudio finish
ResponseArrives ==
    /\ upc = "fetching"
    /\ hpc = "done"
    /\ Len(responses) = 1
    /\ Install(responses[1])
    /\ isGeneratingCaptions' = FALSE
    /\ isLoading' = FALSE
    /\ upc' = "idle"
    /\ UNCHANGED <<selectedFile, useHinglishModel, jobFile, jobHinglish>>
    /\ UNCHANGED <<playerVars, utilVars, handlerVars>>

\* the events of the uploader
UploaderStep ==
    \/ \E f \in Files : SelectFile(f)
    \/ ToggleModel
    \/ ExtractAudio
    \/ ExtractionFails
    \/ GenerateCaptions
    \/ ResponseArrives

NextUploader == UploaderStep \/ HandlerStep

\* one uploader and the backend it posts to
SpecUploader == Init /\ [][NextUploader]_vars

\* ----------------------------------------------------- claim on the uploader
\* C25: captions shown by the uploader (a non-empty list, handed to the
\* player with the selected file) and the subtitle content beside them were
\* generated from the currently selected file
C25_CaptionsOfSelectedFile ==
    (uploaderCaptions.present /\ Len(uploaderCaptions.list) > 0 /\ uploaderSrt.present) =>
        captionsFrom = selectedFile
====
